---- MODULE Spec2Model ----
(***************************************************************************)
(* A model of the picrocess pixel buffer (package picrocess): the Image    *)
(* value with its [][]RGBA storage, and the methods that read, write,      *)
(* composite and transform it.  Pixel storage lives in a heap of arrays    *)
(* addressed by the Image's Pixel field, so that a copied Image value      *)
(* shares its storage exactly as a copied Go slice header does.            *)
(***************************************************************************)
EXTENDS Integers, Sequences, FiniteSets, TLC

VARIABLES
    heap,   \* the [][]RGBA arrays allocated so far: heap[a][x+1][y+1]
    img,    \* the Image under test: [Width, Height, Pixel |-> address]
    ok,     \* FALSE once a call has panicked (the program has stopped)
    ret,    \* what the last call returned
    last,   \* the last call: [name, args]
    prev,   \* the Image's value (dimensions and pixels) before the last call
    steps,  \* number of calls made
    gf,     \* the GIF being assembled: [Delay, Image], Image the rendered frames
    grape   \* the LineGrape being filled: [Value], the data points

vars == <<heap, img, ok, ret, last, prev, steps, gf, grape>>

-----------------------------------------------------------------------------
(* Bounds of the model.                                                    *)

\* Largest width and height of a constructed or resized buffer.
MaxDim == 4

\* Largest width and height of a buffer that a sequence of calls starts from.
SeqDim == 3

\* Largest width and height of a buffer whose frames go into a GIF.
FilmDim == 3

\* Width of the one-row buffer of pairwise distinct colours that goes into a GIF.
BigFrame == 257

\* Largest colour set whose every iteration order is explored.
MaxPerm == 4

\* Longest sequence of calls.
MaxSteps == 2

\* Go's uint wraps modulo 2^64; the model keeps the wrap at a narrower width.
UintMod == 65536

\* Most frames appended to a GIF between the calls that change its image.
MaxFrames == 2

\* Most data points of a chart, and the largest data value.
MaxPoints == 3

MaxValue == 3

-----------------------------------------------------------------------------
(* uint arithmetic.                                                        *)

UAdd(a, b) == (a + b) % UintMod

USub(a, b) == (a - b) % UintMod

UMul(a, b) == (a * b) % UintMod

UDiv(a, b) == a \div b

\* make([]T, n) panics when n, read as an int, is negative.
MakeOK(n) == n < UintMod \div 2

-----------------------------------------------------------------------------
(* float64 arithmetic.  Every float64 the modelled code computes is zero   *)
(* or lies in [2^-8, 2^8), so it is a multiple of 2^-61: a float64 is kept *)
(* as the integer N = value * 2^61 < 2^69, in three limbs <<hi, mid, lo>>  *)
(* of 23 bits.  Each operation computes the exact result and rounds it to  *)
(* 53 significant bits, ties to even, as IEEE 754 does.                    *)

RECURSIVE Pow2(_)
Pow2(n) == IF n = 0 THEN 1 ELSE 2 * Pow2(n - 1)

Limb == Pow2(23)

\* 2^61 = FOne[1] * Limb^2: the weight of 1.0 in the top limb.
FUnit == Pow2(15)

RECURSIVE BitLen(_)
BitLen(n) == IF n = 0 THEN 0 ELSE 1 + BitLen(n \div 2)

FNorm(h, m, l) ==
    LET m1 == m + (l \div Limb)
    IN  <<h + (m1 \div Limb), m1 % Limb, l % Limb>>

\* Round to 53 significant bits; sticky says the exact value lies strictly
\* above N (a division with a remainder).
FRound(N, sticky) ==
    IF N[1] < Pow2(7) THEN N
    ELSE LET sh   == BitLen(N[1]) - 7
             p    == Pow2(sh)
             low  == N[3] % p
             half == p \div 2
             odd  == (N[3] \div p) % 2 = 1
             up   == low > half \/ (low = half /\ (sticky \/ odd))
         IN  FNorm(N[1], N[2], N[3] - low + (IF up THEN p ELSE 0))

FFromInt(n) == <<n * FUnit, 0, 0>>

\* One limb of a long division: <<quotient, remainder>> of r * 2^23 by den,
\* taken 12 and 11 bits at a time.
FDivLimb(r, den) ==
    LET a == r * Pow2(12)
        b == (a % den) * Pow2(11)
    IN  <<(a \div den) * Pow2(11) + (b \div den), b % den>>

\* The float64 nearest to num / den, for small integers num <= den.
FDivInt(num, den) ==
    LET h  == num * FUnit
        m  == FDivLimb(h % den, den)
        l  == FDivLimb(m[2], den)
    IN  FRound(<<h \div den, m[1], l[1]>>, l[2] # 0)

FMulExact(f, n) == FNorm(f[1] * n, f[2] * n, f[3] * n)

FMulInt(f, n) == FRound(FMulExact(f, n), FALSE)

FAddExact(f, g) == FNorm(f[1] + g[1], f[2] + g[2], f[3] + g[3])

FAdd(f, g) == FRound(FAddExact(f, g), FALSE)

FSub(f, g) ==
    LET l  == f[3] - g[3]
        bl == IF l < 0 THEN 1 ELSE 0
        m  == f[2] - g[2] - bl
        bm == IF m < 0 THEN 1 ELSE 0
    IN  FRound(<<f[1] - g[1] - bm, m + bm * Limb, l + bl * Limb>>, FALSE)

\* int(f), uint8(f): the integer part.
FTrunc(f) == f[1] \div FUnit

-----------------------------------------------------------------------------
(* RGBA.                                                                   *)

RGBA(r, g, b, a) == [R |-> r, G |-> g, B |-> b, A |-> a]

Transparent == RGBA(0, 0, 0, 0)

\* The ramp, each one-byte string by its byte; a Go string is the sequence
\* of its bytes.
ASCII_CHARS == <<
    32, 46, 39, 96, 94, 34, 44, 59, 58, 73, 108, 33, 105, 62, 60, 126, 43, 95, 45,
    63, 93, 91, 125, 123, 49, 41, 40, 124, 92, 47, 116, 102, 106, 114, 120, 110, 117, 118,
    99, 122, 88, 89, 85, 74, 67, 76, 81, 48, 79, 90, 109, 119, 113, 112, 100, 98, 107, 104,
    97, 111, 42, 35, 77, 87, 38, 56, 37, 66, 64, 36 >>

Newline == <<10>>

\* int(0.299*r + 0.587*g + 0.114*b) * a / 255, and 0 when a = 0.
Brightness(c) ==
    IF c.A = 0 THEN 0
    ELSE LET sum == FAdd(FAdd(FMulInt(FDivInt(299, 1000), c.R),
                              FMulInt(FDivInt(587, 1000), c.G)),
                         FMulInt(FDivInt(114, 1000), c.B))
         IN  (FTrunc(sum) * c.A) \div 255

-----------------------------------------------------------------------------
(* Overlay's per-pixel rule.  Go lets a build fuse x*y + z into one        *)
(* rounding, so the blend (1-alpha)*dest + alpha*pixel has three forms.    *)

FusedForms == {"separate", "fusedDest", "fusedPixel"}

Blend(alpha, d, s, form) ==
    LET inv == FSub(FFromInt(1), alpha)
    IN  CASE form = "separate"   -> FAdd(FMulInt(inv, d), FMulInt(alpha, s))
          [] form = "fusedDest"  -> FRound(FAddExact(FMulExact(inv, d), FMulInt(alpha, s)), FALSE)
          [] form = "fusedPixel" -> FRound(FAddExact(FMulInt(inv, d), FMulExact(alpha, s)), FALSE)

\* OverlayPixel with one slip: the blended pixel keeps the destination's alpha.
OverlayPixelKeepsDestAlpha(pixel, destPixel, form) ==
    IF pixel.A = 255 /\ destPixel.A = 255 THEN pixel
    ELSE IF pixel.A = 255 /\ destPixel.A = 0 THEN pixel
    ELSE IF pixel.A = 0 /\ destPixel.A = 255 THEN destPixel
    ELSE LET alpha == FDivInt(pixel.A, 255)
         IN  RGBA(FTrunc(Blend(alpha, destPixel.R, pixel.R, form)),
                  FTrunc(Blend(alpha, destPixel.G, pixel.G, form)),
                  FTrunc(Blend(alpha, destPixel.B, pixel.B, form)),
                  destPixel.A)

\* OverlayPixel with one slip: a transparent pixel over an opaque one is
\* blended like any other.
OverlayPixelBlendsTransparent(pixel, destPixel, form) ==
    IF pixel.A = 255 /\ destPixel.A = 255 THEN pixel
    ELSE IF pixel.A = 255 /\ destPixel.A = 0 THEN pixel
    ELSE LET alpha == FDivInt(pixel.A, 255)
         IN  RGBA(FTrunc(Blend(alpha, destPixel.R, pixel.R, form)),
                  FTrunc(Blend(alpha, destPixel.G, pixel.G, form)),
                  FTrunc(Blend(alpha, destPixel.B, pixel.B, form)),
                  pixel.A)

\* The colour Overlay hands to Set for source colour pixel over destPixel.
OverlayPixel(pixel, destPixel, form) ==
    IF pixel.A = 255 /\ destPixel.A = 255 THEN pixel
    ELSE IF pixel.A = 255 /\ destPixel.A = 0 THEN pixel
    ELSE IF pixel.A = 0 /\ destPixel.A = 255 THEN destPixel
    ELSE LET alpha == FDivInt(pixel.A, 255)
         IN  RGBA(FTrunc(Blend(alpha, destPixel.R, pixel.R, form)),
                  FTrunc(Blend(alpha, destPixel.G, pixel.G, form)),
                  FTrunc(Blend(alpha, destPixel.B, pixel.B, form)),
                  pixel.A)

-----------------------------------------------------------------------------
(* Image: construction, At, Set.  Every method below takes the heap h and  *)
(* the receiver i and yields [heap, img, ok, ret]: the heap and receiver   *)
(* after the call, whether it returned (ok) or panicked, and its result.   *)

NoReturn == <<>>

Done(h, i, r) == [heap |-> h, img |-> i, ok |-> TRUE, ret |-> r]

Panic(h, i) == [heap |-> h, img |-> i, ok |-> FALSE, ret |-> NoReturn]

\* The Image value whose storage is heap array a.
Image(w, hgt, a) == [Width |-> w, Height |-> hgt, Pixel |-> a]

\* Width and Height with the pixels themselves: what a deep copy would hold.
Val(h, i) == [Width |-> i.Width, Height |-> i.Height, Pixel |-> h[i.Pixel]]

NewImage(h, w, hgt, color) ==
    Done(Append(h, [x \in 1..w |-> [y \in 1..hgt |-> color]]),
         Image(w, hgt, Len(h) + 1), NoReturn)

\* The pixel (x, y) of a decoded frame: opaque, no two alike.
Decoded(x, y) == RGBA((x + 1) % 256, (y + 1) % 256, (x + 1) \div 256, 255)

\* Render(*image.RGBA): one stored pixel per pixel of the decoded frame.
Render(h, w, hgt) ==
    Done(Append(h, [x \in 1..w |-> [y \in 1..hgt |-> Decoded(x - 1, y - 1)]]),
         Image(w, hgt, Len(h) + 1), NoReturn)

\* At with one slip: an out-of-range read yields opaque black.
AtOpaqueDefault(h, i, x, y) ==
    IF x >= i.Width \/ y >= i.Height THEN RGBA(0, 0, 0, 255)
    ELSE h[i.Pixel][x + 1][y + 1]

At(h, i, x, y) ==
    IF x >= i.Width \/ y >= i.Height THEN RGBA(0, 0, 0, 0)
    ELSE h[i.Pixel][x + 1][y + 1]

\* The heap after i.Set(x, y, c).
Set(h, i, x, y, c) ==
    IF x >= i.Width \/ y >= i.Height THEN h
    ELSE [h EXCEPT ![i.Pixel][x + 1][y + 1] = c]

\* The <<x, y>> that "for x := range p { for y := range p[x] {" visits, in order.
RECURSIVE CellsFrom(_, _)
CellsFrom(p, x) ==
    IF x > Len(p) THEN <<>>
    ELSE [y \in 1..Len(p[x]) |-> <<x - 1, y - 1>>] \o CellsFrom(p, x + 1)

Cells(p) == CellsFrom(p, 1)

\* The <<x, y>> that "for x < w { for y < hgt {" visits, in order.
Grid(w, hgt) == [k \in 1..(w * hgt) |-> <<(k - 1) \div hgt, (k - 1) % hgt>>]

-----------------------------------------------------------------------------
(* To, Overlay, Resize, Crop.                                              *)

To(h, i, b, a) ==
    LET p == h[i.Pixel]
    IN  Done([h EXCEPT ![i.Pixel] =
                 [x \in DOMAIN p |->
                     [y \in DOMAIN p[x] |-> IF p[x][y] = b THEN a ELSE p[x][y]]]],
             i, NoReturn)

RECURSIVE OverlayLoop(_, _, _, _, _, _, _)
OverlayLoop(h, i, i2, o, form, cells, k) ==
    IF k > Len(cells) THEN h
    ELSE LET x         == cells[k][1]
             y         == cells[k][2]
             pixel     == At(h, i2, x, y)
             tx        == UAdd(o.W, x)
             ty        == UAdd(o.H, y)
             destPixel == At(h, i, tx, ty)
         IN  OverlayLoop(Set(h, i, tx, ty, OverlayPixel(pixel, destPixel, form)),
                         i, i2, o, form, cells, k + 1)

Overlay(h, i, i2, o, form) ==
    Done(OverlayLoop(h, i, i2, o, form, Cells(h[i2.Pixel]), 1), i, NoReturn)

\* ResizeSrc with one slip: the quotient is rounded to nearest.
ResizeSrcRounded(k, old, new) == UDiv(UAdd(UMul(k, old), new \div 2), new)

\* srcX := uint(x) * i.Width / w
ResizeSrc(k, old, new) == UDiv(UMul(k, old), new)

Resize(h, i, w, hgt) ==
    IF ~MakeOK(w) \/ (w > 0 /\ ~MakeOK(hgt)) THEN Panic(h, i)
    ELSE LET newPixel ==
                 [x \in 1..w |-> [y \in 1..hgt |->
                     At(h, i, ResizeSrc(x - 1, i.Width, w),
                              ResizeSrc(y - 1, i.Height, hgt))]]
         IN  Done(Append(h, newPixel), Image(w, hgt, Len(h) + 1), NoReturn)

Rect(w1, h1, w2, h2) == [W1 |-> w1, H1 |-> h1, W2 |-> w2, H2 |-> h2]

\* Dx with one slip: the right edge is counted in.
DxInclusive(r) == UAdd(USub(r.W2, r.W1), 1)

Dx(r) == USub(r.W2, r.W1)

Dy(r) == USub(r.H2, r.H1)

Offset(w, hgt) == [W |-> w, H |-> hgt]

\* Crop returns the new Image; the receiver is only read.
\* Crop with one slip: cropping to the buffer's own bounds hands back the
\* receiver's storage instead of a copy.
CropSharesWhole(h, i, r) ==
    IF ~MakeOK(Dx(r)) \/ (Dx(r) > 0 /\ ~MakeOK(Dy(r))) THEN Panic(h, i)
    ELSE IF r = Rect(0, 0, i.Width, i.Height) THEN Done(h, i, i)
    ELSE LET pixel ==
                 [x \in 1..Dx(r) |-> [y \in 1..Dy(r) |->
                     At(h, i, UAdd(r.W1, x - 1), UAdd(r.H1, y - 1))]]
         IN  Done(Append(h, pixel), i, Image(Dx(r), Dy(r), Len(h) + 1))

Crop(h, i, r) ==
    IF ~MakeOK(Dx(r)) \/ (Dx(r) > 0 /\ ~MakeOK(Dy(r))) THEN Panic(h, i)
    ELSE LET pixel ==
                 [x \in 1..Dx(r) |-> [y \in 1..Dy(r) |->
                     At(h, i, UAdd(r.W1, x - 1), UAdd(r.H1, y - 1))]]
         IN  Done(Append(h, pixel), i, Image(Dx(r), Dy(r), Len(h) + 1))

-----------------------------------------------------------------------------
(* Round.                                                                  *)

\* RoundSkip with one slip: a pixel is passed over only when both of its
\* coordinates lie in the middle band.
RoundSkipBoth(i, px, x, y) ==
    /\ x >= px /\ x <= USub(i.Width, px)
    /\ y >= px /\ y <= USub(i.Width, px)

\* The pixels Round passes over with "continue".
RoundSkip(i, px, x, y) ==
    \/ x >= px /\ x <= USub(i.Width, px)
    \/ y >= px /\ y <= USub(i.Width, px)

\* <<dx, dy>>: the centre Round measures the pixel's distance from.
RoundCentre(i, px, x, y) ==
    IF x <= px /\ y <= px THEN <<px, px>>
    ELSE IF x <= px /\ y > USub(i.Width, px) THEN <<px, USub(i.Height, px)>>
    ELSE IF x >= USub(i.Width, px) /\ y <= px THEN <<USub(i.Width, px), px>>
    ELSE <<USub(i.Width, px), USub(i.Height, px)>>

Abs(n) == IF n < 0 THEN -n ELSE n

\* math.Sqrt(math.Pow(x-dx, 2) + math.Pow(y-dy, 2)) > float64(px): the
\* squares of integers of this size are exact and Sqrt is monotone, so the
\* comparison is that of the squares; a component beyond px decides alone.
Farther(x, y, c, px) ==
    \/ Abs(x - c[1]) > px
    \/ Abs(y - c[2]) > px
    \/ (x - c[1]) * (x - c[1]) + (y - c[2]) * (y - c[2]) > px * px

RoundCuts(i, px, x, y) ==
    ~RoundSkip(i, px, x, y) /\ Farther(x, y, RoundCentre(i, px, x, y), px)

RECURSIVE RoundLoop(_, _, _, _, _)
RoundLoop(h, i, px, cells, k) ==
    IF k > Len(cells) THEN h
    ELSE LET x == cells[k][1]
             y == cells[k][2]
         IN  RoundLoop(IF RoundCuts(i, px, x, y)
                           THEN Set(h, i, x, y, RGBA(0, 0, 0, 0))
                           ELSE h,
                       i, px, cells, k + 1)

Round(h, i, px) == Done(RoundLoop(h, i, px, Cells(h[i.Pixel]), 1), i, NoReturn)

-----------------------------------------------------------------------------
(* Rotate90, RotateMinus90, FlipHorizontal, FlipVertical.                  *)

\* make([][]RGBA, n) with every column make([]RGBA, m): zero-valued pixels.
Zeroed(n, m) == [x \in 1..n |-> [y \in 1..m |-> RGBA(0, 0, 0, 0)]]

\* p[a][b] is an index expression that does not panic.
InRange(p, a, b) == a < Len(p) /\ b < Len(p[a + 1])

\* newPixel[y][i.Height-1-uint(x)] = pixel
Rotate90Target(i, x, y) == <<y, USub(USub(i.Height, 1), x)>>

\* newPixel[i.Height-1-uint(y)][x] = pixel
RotateMinus90Target(i, x, y) == <<USub(USub(i.Height, 1), y), x>>

\* The copy loop of a rotation: [ok, p], with ok FALSE when an index
\* expression panics.
RECURSIVE RotateLoop(_, _, _, _, _, _)
RotateLoop(h, i, name, newPixel, cells, k) ==
    IF k > Len(cells) THEN [ok |-> TRUE, p |-> newPixel]
    ELSE LET x == cells[k][1]
             y == cells[k][2]
             t == IF name = "Rotate90" THEN Rotate90Target(i, x, y)
                  ELSE RotateMinus90Target(i, x, y)
         IN  IF ~InRange(newPixel, t[1], t[2]) THEN [ok |-> FALSE, p |-> newPixel]
             ELSE RotateLoop(h, i, name,
                             [newPixel EXCEPT ![t[1] + 1][t[2] + 1] = At(h, i, x, y)],
                             cells, k + 1)

\* Rotated with one slip: Width and Height are not exchanged.
RotatedKeepsDims(h, i, r) ==
    IF r.ok THEN Done(Append(h, r.p), Image(i.Width, i.Height, Len(h) + 1), NoReturn)
    ELSE Panic(h, i)

\* i.Pixel = newPixel; i.Width, i.Height = i.Height, i.Width
Rotated(h, i, r) ==
    IF r.ok THEN Done(Append(h, r.p), Image(i.Height, i.Width, Len(h) + 1), NoReturn)
    ELSE Panic(h, i)

Rotate90(h, i) ==
    Rotated(h, i, RotateLoop(h, i, "Rotate90", Zeroed(i.Height, i.Width),
                             Cells(h[i.Pixel]), 1))

RotateMinus90(h, i) ==
    Rotated(h, i, RotateLoop(h, i, "RotateMinus90", Zeroed(i.Height, i.Width),
                             Grid(i.Width, i.Height), 1))

\* One swap of a flip, written into the receiver's own storage:
\* i.Pixel[a] = At(b); i.Pixel[b] = At(a), for cells a and b.
Swap(h, i, a, b) ==
    LET pa == At(h, i, a[1], a[2])
        pb == At(h, i, b[1], b[2])
    IN  [h EXCEPT ![i.Pixel][a[1] + 1][a[2] + 1] = pb,
                  ![i.Pixel][b[1] + 1][b[2] + 1] = pa]

FlipHorizontalMirror(i, x, y) == <<USub(USub(i.Width, 1), x), y>>

FlipVerticalMirror(i, x, y) == <<x, USub(USub(i.Height, 1), y)>>

RECURSIVE FlipLoop(_, _, _, _, _)
FlipLoop(h, i, name, cells, k) ==
    IF k > Len(cells) THEN h
    ELSE LET x == cells[k][1]
             y == cells[k][2]
             m == IF name = "FlipHorizontal" THEN FlipHorizontalMirror(i, x, y)
                  ELSE FlipVerticalMirror(i, x, y)
         IN  FlipLoop(Swap(h, i, cells[k], m), i, name, cells, k + 1)

\* FlipHorizontalCells with one slip: the loop runs over the whole width.
FlipHorizontalCellsWhole(i) ==
    [k \in 1..(i.Height * i.Width) |-> <<(k - 1) % i.Width, (k - 1) \div i.Width>>]

\* for y < Height { for x < Width/2 {
FlipHorizontalCells(i) ==
    LET half == i.Width \div 2
    IN  [k \in 1..(i.Height * half) |-> <<(k - 1) % half, (k - 1) \div half>>]

FlipHorizontal(h, i) ==
    Done(FlipLoop(h, i, "FlipHorizontal", FlipHorizontalCells(i), 1), i, NoReturn)

\* for x < Width { for y < Height/2 {
FlipVertical(h, i) ==
    Done(FlipLoop(h, i, "FlipVertical", Grid(i.Width, i.Height \div 2), 1),
         i, NoReturn)

-----------------------------------------------------------------------------
(* Line.                                                                   *)

\* float64 values of any magnitude: <<m, e>> is m * 2^e, with the natural m
\* a sequence of digits of DigitBits bits each, the least significant first.
Radix == Pow2(15)

DigitBits == BitLen(Radix) - 1

RECURSIVE NTrim(_)
NTrim(a) ==
    IF Len(a) > 0 /\ a[Len(a)] = 0 THEN NTrim(SubSeq(a, 1, Len(a) - 1)) ELSE a

NFromInt(n) == NTrim(<<n % Radix, (n \div Radix) % Radix, n \div (Radix * Radix)>>)

NDigit(a, k) == IF k <= Len(a) THEN a[k] ELSE 0

RECURSIVE NAddFrom(_, _, _, _)
NAddFrom(a, b, k, carry) ==
    IF k > Len(a) /\ k > Len(b)
        THEN IF carry = 0 THEN <<>> ELSE <<carry>>
    ELSE LET s == NDigit(a, k) + NDigit(b, k) + carry
         IN  <<s % Radix>> \o NAddFrom(a, b, k + 1, s \div Radix)

NAdd(a, b) == NTrim(NAddFrom(a, b, 1, 0))

\* a - b for a >= b
RECURSIVE NSubFrom(_, _, _, _)
NSubFrom(a, b, k, borrow) ==
    IF k > Len(a) THEN <<>>
    ELSE LET s == NDigit(a, k) - NDigit(b, k) - borrow
         IN  <<s % Radix>> \o NSubFrom(a, b, k + 1, IF s < 0 THEN 1 ELSE 0)

NSub(a, b) == NTrim(NSubFrom(a, b, 1, 0))

RECURSIVE NMulDigitFrom(_, _, _, _)
NMulDigitFrom(a, d, k, carry) ==
    IF k > Len(a)
        THEN IF carry = 0 THEN <<>> ELSE <<carry>>
    ELSE LET p == a[k] * d + carry
         IN  <<p % Radix>> \o NMulDigitFrom(a, d, k + 1, p \div Radix)

NMulDigit(a, d) == NTrim(NMulDigitFrom(a, d, 1, 0))

RECURSIVE NMulFrom(_, _, _)
NMulFrom(a, b, k) ==
    IF k > Len(b) THEN <<>>
    ELSE NAdd(NMulDigit(a, b[k]), <<0>> \o NMulFrom(a, b, k + 1))

NMul(a, b) == NTrim(NMulFrom(a, b, 1))

RECURSIVE NLessAt(_, _, _)
NLessAt(a, b, k) ==
    IF k = 0 THEN FALSE
    ELSE IF a[k] # b[k] THEN a[k] < b[k]
    ELSE NLessAt(a, b, k - 1)

NLess(a, b) == IF Len(a) # Len(b) THEN Len(a) < Len(b) ELSE NLessAt(a, b, Len(a))

NBitLen(a) == IF Len(a) = 0 THEN 0 ELSE DigitBits * (Len(a) - 1) + BitLen(a[Len(a)])

\* a * 2^n
NShl(a, n) ==
    IF n = 0 \/ Len(a) = 0 THEN a
    ELSE [k \in 1..(n \div DigitBits) |-> 0] \o NMulDigit(a, Pow2(n % DigitBits))

\* a \div 2^n
NShr(a, n) ==
    LET q == n \div DigitBits
        r == n % DigitBits
    IN  NTrim([k \in 1..(Len(a) - q) |->
                  (a[k + q] \div Pow2(r))
                      + (NDigit(a, k + q + 1) % Pow2(r)) * Pow2(DigitBits - r)])

NBit(a, n) == (NDigit(a, (n \div DigitBits) + 1) \div Pow2(n % DigitBits)) % 2

\* a % 2^n = 0
NLowZero(a, n) ==
    /\ \A k \in 1..(n \div DigitBits) : NDigit(a, k) = 0
    /\ NDigit(a, (n \div DigitBits) + 1) % Pow2(n % DigitBits) = 0

\* Quotient and remainder of a by den < Radix, from digit k down.
RECURSIVE NDivFrom(_, _, _, _)
NDivFrom(a, den, k, rem) ==
    IF k = 0 THEN [q |-> <<>>, r |-> rem]
    ELSE LET cur  == rem * Radix + a[k]
             rest == NDivFrom(a, den, k - 1, cur % den)
         IN  [q |-> rest.q \o <<cur \div den>>, r |-> rest.r]

NDiv(a, den) ==
    LET d == NDivFrom(a, den, Len(a), 0) IN [q |-> NTrim(d.q), r |-> d.r]

\* The float64 nearest m * 2^e, or nearest a value just above it when
\* sticky: 53 bits are kept, ties go to the even one.
DRound(m, e, sticky) ==
    LET len == NBitLen(m)
        sh  == len - 53
        q   == NShr(m, sh)
        up  == /\ NBit(m, sh - 1) = 1
               /\ \/ sticky
                  \/ ~NLowZero(m, sh - 1)
                  \/ NBit(q, 0) = 1
    IN  IF len <= 53 THEN <<m, e>>
        ELSE <<IF up THEN NAdd(q, <<1>>) ELSE q, e + sh>>

DFromInt(n) == <<NFromInt(n), 0>>

\* The mantissa of d at the exponent e <= d[2].
DAt(d, e) == NShl(d[1], d[2] - e)

DLow(a, b) == IF a[2] < b[2] THEN a[2] ELSE b[2]

DMulExact(a, b) == <<NMul(a[1], b[1]), a[2] + b[2]>>

DAddExact(a, b) == <<NAdd(DAt(a, DLow(a, b)), DAt(b, DLow(a, b))), DLow(a, b)>>

DLess(a, b) == NLess(DAt(a, DLow(a, b)), DAt(b, DLow(a, b)))

\* |a - b|
DGapExact(a, b) ==
    LET e  == DLow(a, b)
        ma == DAt(a, e)
        mb == DAt(b, e)
    IN  IF NLess(ma, mb) THEN <<NSub(mb, ma), e>> ELSE <<NSub(ma, mb), e>>

\* float64(num) / float64(den) for naturals num, den with 0 < den < Radix
DDivInt(num, den) ==
    LET k == 60 + BitLen(den)
        d == NDiv(NShl(NFromInt(num), k), den)
    IN  DRound(d.q, -k, d.r # 0)

\* math.Sqrt(s) <= thickness/2: the square root is the float64 nearest the
\* real one, so it is at most h = thickness/2 when the real one is below the
\* midpoint of h and the float64 after h (it is never that midpoint).
SqrtWithin(s, thickness) ==
    LET sh    == 53 - BitLen(thickness)
        mid   == <<NAdd(NShl(NFromInt(thickness), sh + 1), <<1>>), 0 - (sh + 2)>>
    IN  IF thickness = 0 THEN Len(s[1]) = 0
        ELSE DLess(s, DMulExact(mid, mid))

\* The ways a build may compute the projection and the sum of squares: each
\* product rounded on its own, or one multiply-add rounded once.
LineForms == {"separate", "fusedFirst", "fusedSecond"}

\* t*v for v = c2 - c1, up to sign: rounded on its own unless the build
\* fuses it into the sum that follows.
Scaled(t, c1, c2, form) ==
    LET tv == DMulExact(t, DFromInt(IF c2 >= c1 THEN c2 - c1 ELSE c1 - c2))
    IN  IF form = "separate" THEN DRound(tv[1], tv[2], FALSE) ELSE tv

\* c1 + t*v, given tv = |t*v|
Proj(c1, c2, tv) ==
    LET sum == IF c2 >= c1 THEN DAddExact(DFromInt(c1), tv)
               ELSE DGapExact(DFromInt(c1), tv)
    IN  DRound(sum[1], sum[2], FALSE)

\* px - projX, up to sign
Gap(px, projX) ==
    LET d == DGapExact(DFromInt(px), projX) IN DRound(d[1], d[2], FALSE)

\* dx*dx, rounded on its own unless fused into the sum
Square(dx, fused) ==
    LET sq == DMulExact(dx, dx)
    IN  IF fused THEN sq ELSE DRound(sq[1], sq[2], FALSE)

\* dx*dx + dy*dy
SumSquares(sx, sy) ==
    LET sum == DAddExact(sx, sy) IN DRound(sum[1], sum[2], FALSE)

\* pointToLineDistance(r.W1, r.H1, r.W2, r.H2, x, y) <= thickness/2, for an
\* integer thickness.  The distance is to an endpoint, the square root of an
\* integer, when the projection parameter t = dot/lenSq leaves [0, 1] or the
\* segment has no length, and to the projection (projX, projY) otherwise,
\* computed one statement after the other.
LineNear(r, x, y, thickness, form) ==
    LET vx    == r.W2 - r.W1
        vy    == r.H2 - r.H1
        lenSq == vx * vx + vy * vy
        wx    == x - r.W1
        wy    == y - r.H1
        dot   == wx * vx + wy * vy
    IN  IF lenSq = 0 \/ dot < 0
            THEN SqrtWithin(DFromInt(wx * wx + wy * wy), thickness)
        ELSE IF dot > lenSq
            THEN SqrtWithin(DFromInt((x - r.W2) * (x - r.W2)
                                         + (y - r.H2) * (y - r.H2)), thickness)
        ELSE \E t \in {DDivInt(dot, lenSq)} :
             \E tvx \in {Scaled(t, r.W1, r.W2, form)},
                tvy \in {Scaled(t, r.H1, r.H2, form)} :
             \E projX \in {Proj(r.W1, r.W2, tvx)},
                projY \in {Proj(r.H1, r.H2, tvy)} :
             \E dx \in {Gap(x, projX)}, dy \in {Gap(y, projY)} :
             \E sx \in {Square(dx, form = "fusedFirst")},
                sy \in {Square(dy, form = "fusedSecond")} :
                 SqrtWithin(SumSquares(sx, sy), thickness)

RECURSIVE LineLoop(_, _, _, _, _, _, _, _)
LineLoop(h, i, r, c, thickness, form, cells, k) ==
    IF k > Len(cells) THEN h
    ELSE LET x == cells[k][1]
             y == cells[k][2]
         IN  IF LineNear(r, x, y, thickness, form)
                 THEN LineLoop(Set(h, i, x, y, c), i, r, c, thickness, form, cells, k + 1)
             ELSE LineLoop(h, i, r, c, thickness, form, cells, k + 1)

Line(h, i, r, c, thickness, form) ==
    Done(LineLoop(h, i, r, c, thickness, form, Cells(h[i.Pixel]), 1), i, NoReturn)

-----------------------------------------------------------------------------
(* Ascii.                                                                  *)

RECURSIVE Repeat(_, _)
Repeat(s, n) == IF n = 0 THEN <<>> ELSE s \o Repeat(s, n - 1)

\* ASCII_CHARS[brightness * (len(ASCII_CHARS) - 1) / 255]
AsciiChar(pixel) ==
    <<ASCII_CHARS[(Brightness(pixel) * (Len(ASCII_CHARS) - 1)) \div 255 + 1]>>

RECURSIVE AsciiColumn(_, _, _)
AsciiColumn(col, y, length) ==
    IF y > Len(col) THEN <<>>
    ELSE Repeat(AsciiChar(col[y]), length) \o AsciiColumn(col, y + 1, length)

RECURSIVE AsciiRows(_, _, _)
AsciiRows(p, x, length) ==
    IF x > Len(p) THEN <<>>
    ELSE AsciiColumn(p[x], 1, length) \o Newline \o AsciiRows(p, x + 1, length)

\* An Ascii whose three calls work on the receiver itself, not on a copy.
AsciiOnReceiver(h, i, w, hgt, length) ==
    LET resized == Resize(h, i, w, hgt)
    IN  IF ~resized.ok THEN resized
        ELSE LET rotated == Rotate90(resized.heap, resized.img)
             IN  IF ~rotated.ok THEN rotated
                 ELSE LET flipped == FlipVertical(rotated.heap, rotated.img)
                      IN  Done(flipped.heap, flipped.img,
                               AsciiRows(flipped.heap[flipped.img.Pixel], 1, length))

\* img := *i copies the Image value: the three calls work on the copy, which
\* starts out sharing the receiver's storage.
Ascii(h, i, w, hgt, length) ==
    LET resized == Resize(h, i, w, hgt)
    IN  IF ~resized.ok THEN Panic(h, i)
        ELSE LET rotated == Rotate90(resized.heap, resized.img)
             IN  IF ~rotated.ok THEN Panic(resized.heap, i)
                 ELSE LET flipped == FlipVertical(rotated.heap, rotated.img)
                      IN  Done(flipped.heap, i,
                               AsciiRows(flipped.heap[flipped.img.Pixel], 1, length))

-----------------------------------------------------------------------------
(* GIF: NewGIF, Append, Palette, ToGIFBuffer.  A frame is the *image.RGBA  *)
(* that Image.Render makes: [Dx, Dy, Pix], with pixels of its own.         *)

\* (i *Image) Render: a new Dx x Dy frame, zero-valued, into which every
\* stored pixel that lies inside it is set.
ImageRender(h, i) ==
    LET p == h[i.Pixel]
    IN  [Dx  |-> i.Width,
         Dy  |-> i.Height,
         Pix |-> [x \in 1..i.Width |-> [y \in 1..i.Height |->
                     IF x <= Len(p) /\ y <= Len(p[x]) THEN p[x][y]
                     ELSE RGBA(0, 0, 0, 0)]]]

NewGIF == [Delay |-> <<>>, Image |-> <<>>]

\* An Append that renders every frame of the list again from the image.
GIFAppendRedrawn(g, h, i, delay) ==
    [Delay |-> Append(g.Delay, delay),
     Image |-> [k \in 1..(Len(g.Image) + 1) |-> ImageRender(h, i)]]

\* gf.Append(image, delay)
GIFAppend(g, h, i, delay) ==
    [Delay |-> Append(g.Delay, delay), Image |-> Append(g.Image, ImageRender(h, i))]

\* The pixels of the frame in the order Palette visits them: row by row.
Scan(frame) ==
    [k \in 1..(frame.Dx * frame.Dy) |->
        frame.Pix[((k - 1) % frame.Dx) + 1][((k - 1) \div frame.Dx) + 1]]

\* The keys of colorSet once Palette has visited every pixel of the frame,
\* each colour once, in the order in which the visits put them into the map.
ColorSet(frame) ==
    LET scan   == Scan(frame)
        tagged == [k \in 1..Len(scan) |-> <<k, scan[k]>>]
        New(e) == \A j \in 1..(e[1] - 1) : scan[j] # e[2]
        kept   == SelectSeq(tagged, New)
    IN  [k \in 1..Len(kept) |-> kept[k][2]]

Reversed(q) == [k \in 1..Len(q) |-> q[Len(q) + 1 - k]]

\* The orders in which "for c := range colorSet" may deliver the keys of the
\* map: the language leaves the order open.  Every order of up to MaxPerm
\* keys; of more keys, the order they were put in and its reverse.
IterationOrders(keys) ==
    IF Len(keys) <= MaxPerm
        THEN {q \in [1..Len(keys) -> {keys[k] : k \in 1..Len(keys)}] :
                 \A j \in 1..Len(q), k \in 1..Len(q) : q[j] = q[k] => j = k}
    ELSE {keys, Reversed(keys)}

\* Palette with one slip: the truncated palette is one entry short.
PaletteOneShort(frame, limit, order) ==
    IF Len(order) > limit THEN SubSeq(order, 1, limit - 1) ELSE order

\* Palette(frame, limit), the range loop having delivered the colours in order.
Palette(frame, limit, order) ==
    IF Len(order) > limit THEN SubSeq(order, 1, limit) ELSE order

\* ToGIFBuffer: Palette(img, 256*256*256)
PaletteLimit == 256 * 256 * 256

\* The palettes ToGIFBuffer hands to image.NewPaletted, frame by frame, the
\* range loop of frame k having delivered its colours in orders[k].
ToGIFBuffer(g, orders) ==
    [k \in 1..Len(g.Image) |-> Palette(g.Image[k], PaletteLimit, orders[k])]

\* One iteration order for every frame of g.
FrameOrders(g) ==
    {o \in [1..Len(g.Image) -> UNION {IterationOrders(ColorSet(g.Image[k])) :
                                          k \in 1..Len(g.Image)}] :
        \A k \in 1..Len(g.Image) : o[k] \in IterationOrders(ColorSet(g.Image[k]))}

-----------------------------------------------------------------------------
(* LineGrape: NewLineGrape, Append, Render.  The 700 x 500 chart is kept   *)
(* as the Line calls Render makes on its white base, in order: a pixel of  *)
(* the chart has the colour of the last line it is near.                   *)

\* NewRGBA(r, g, b): alpha defaults to 255
NewRGBA(r, g, b) == RGBA(r, g, b, 255)

NewLineGrape == [Value |-> <<>>]

\* g.Append(v)
LineGrapeAppend(g, v) == [Value |-> Append(g.Value, v)]

RECURSIVE NToInt(_, _)
NToInt(a, k) == IF k > Len(a) THEN 0 ELSE a[k] + Radix * NToInt(a, k + 1)

\* uint(d) for a float64 d >= 0 within the range of uint
DTrunc(d) ==
    IF d[2] >= 0 THEN NToInt(NShl(d[1], d[2]), 1)
    ELSE NToInt(NShr(d[1], 0 - d[2]), 1)

\* What uint(NaN) may come to: the conversion of a value uint cannot hold
\* is left to the build (0, or the top bit alone).
NaNToUint == {0, UintMod \div 2}

RECURSIVE SeqMin(_, _)
SeqMin(values, k) ==
    IF Len(values) = 0 THEN 0
    ELSE IF k = Len(values) THEN values[k]
    ELSE LET rest == SeqMin(values, k + 1)
         IN  IF values[k] < rest THEN values[k] ELSE rest

RECURSIVE SeqMax(_, _)
SeqMax(values, k) ==
    IF Len(values) = 0 THEN 0
    ELSE IF k = Len(values) THEN values[k]
    ELSE LET rest == SeqMax(values, k + 1)
         IN  IF values[k] > rest THEN values[k] ELSE rest

\* base.Line(r, c, thickness)
Drawn(r, c, thickness) == [r |-> r, c |-> c, thickness |-> thickness]

\* The four sides of the axis box.
GrapeBox ==
    <<Drawn(Rect(30, 30, 30, 470), NewRGBA(120, 120, 120), 2),
      Drawn(Rect(30, 30, 670, 30), NewRGBA(120, 120, 120), 2),
      Drawn(Rect(30, 470, 670, 470), NewRGBA(120, 120, 120), 2),
      Drawn(Rect(670, 30, 670, 470), NewRGBA(120, 120, 120), 2)>>

\* for i := uint(0); i < 6; i++: the horizontal gridlines
GrapeRows ==
    [k \in 1..6 |->
        Drawn(Rect(30, UAdd(UMul(UDiv(440, 6), k), 30),
                   670, UAdd(UMul(UDiv(440, 6), k), 30)),
              NewRGBA(120, 120, 120), 1)]

\* x := uint(step*float64(i)) + 30, step := float64(640) / float64(n)
GrapeX(n, i) ==
    LET step == DDivInt(640, n)
        si   == DMulExact(step, DFromInt(i))
    IN  UAdd(DTrunc(DRound(si[1], si[2], FALSE)), 30)

\* y := 500 - (uint((v-min)/(max-min)*440) + 30); the quotient is NaN when
\* max = min, and nan is what its conversion to uint comes to.
GrapeY(v, min, max, nan) ==
    LET q  == DDivInt(v - min, max - min)
        qs == DMulExact(q, DFromInt(440))
    IN  USub(500, UAdd(IF max = min THEN nan
                       ELSE DTrunc(DRound(qs[1], qs[2], FALSE)), 30))

\* The Line calls of "for i := range g.Value" from index i (from 0) on.
RECURSIVE GrapePoints(_, _, _, _, _)
GrapePoints(values, i, lastX, lastY, nan) ==
    IF i >= Len(values) THEN <<>>
    ELSE LET x     == GrapeX(Len(values), i)
             y     == GrapeY(values[i + 1], SeqMin(values, 1), SeqMax(values, 1), nan)
             fromY == IF i = 0 THEN y ELSE lastY
         IN  <<Drawn(Rect(lastX, fromY, x, y), NewRGBA(255, 0, 0), 2)>>
                 \o (IF i # Len(values) - 1
                         THEN <<Drawn(Rect(x, 30, x, 470), NewRGBA(120, 120, 120), 1)>>
                     ELSE <<>>)
                 \o GrapePoints(values, i + 1, x, y, nan)

\* g.Render(): the base and the lines drawn on it.
LineGrapeRender(g, nan) ==
    [Width  |-> 700,
     Height |-> 500,
     Fill   |-> NewRGBA(255, 255, 255),
     Lines  |-> GrapeBox \o GrapeRows \o GrapePoints(g.Value, 0, 30, 0, nan)]

-----------------------------------------------------------------------------
(* The inputs the calls are made with.  Wide: the inputs of the one call   *)
(* made on a freshly constructed buffer.  Lean: the inputs of the calls    *)
(* made one after the other, up to MaxSteps of them.                       *)

Red == RGBA(255, 0, 0, 255)

Half == RGBA(10, 200, 30, 128)

Faint == RGBA(10, 200, 163, 5)

Fills == {Transparent, Red, Half, Faint}

Wide ==
    [single      |-> TRUE,
     dims        |-> 0..MaxDim,
     fills       |-> Fills,
     \* inside small buffers, past the largest one, at the top of the uint range
     coords      |-> {<<0, 0>>, <<1, 0>>, <<1, 2>>, <<MaxDim, 0>>, <<0, MaxDim>>,
                      <<UintMod - 1, UintMod - 1>>},
     setColors   |-> {Red, Faint},
     toPairs     |-> {<<Red, Half>>, <<Transparent, Half>>},
     sources     |-> {<<d[1], d[2], c>> : d \in {<<1, 1>>, <<2, 1>>}, c \in Fills},
     offsets     |-> {Offset(0, 0), Offset(1, 1)},
     blendForms  |-> FusedForms,
     resizes     |-> (0..MaxDim) \X (0..MaxDim),
     \* regions reaching past the buffer, empty, and inverted
     crops       |-> {Rect(1, 0, 3, 2), Rect(1, 1, MaxDim + 1, 2), Rect(2, 2, 2, 0),
                      Rect(2, 0, 1, 1)},
     radii       |-> 0..3,
     lines       |-> {<<Rect(0, 0, 0, 0), 4>>, <<Rect(0, 1, MaxDim, 1), 1>>,
                      <<Rect(0, 0, 3, 2), 1>>, <<Rect(0, 0, 3, 2), 4>>,
                      <<Rect(1, 5, 5, 2), 6>>},
     lineForms   |-> LineForms,
     asciiSizes  |-> {1, 2} \X {1, 2},
     repeats     |-> 0..2]

Lean ==
    [single      |-> FALSE,
     dims        |-> 0..SeqDim,
     fills       |-> {Half},
     coords      |-> {<<1, 0>>},
     setColors   |-> {Faint},
     toPairs     |-> {<<Half, Red>>},
     sources     |-> {<<1, 1, Faint>>},
     offsets     |-> {Offset(0, 0)},
     blendForms  |-> {"separate"},
     resizes     |-> {<<2, 3>>},
     crops       |-> {Rect(1, 0, 3, 2)},
     radii       |-> {1},
     lines       |-> {<<Rect(0, 1, 2, 1), 1>>},
     lineForms   |-> {"separate"},
     asciiSizes  |-> {<<2, 2>>},
     repeats     |-> {1}]

\* The inputs of the calls that assemble and export a GIF.
Film ==
    [single |-> FALSE,
     dims   |-> 0..FilmDim,
     fills  |-> {Transparent, Red},
     delays |-> {10},
     limits |-> {0, 1, 2, 3, 10}]

\* The inputs of the calls that change an image between its Appends to a GIF.
Reel ==
    [single      |-> FALSE,
     dims        |-> {2},
     fills       |-> {Half},
     coords      |-> {<<1, 0>>},
     setColors   |-> {Faint},
     sources     |-> {<<1, 1, Red>>},
     offsets     |-> {Offset(0, 1)},
     blendForms  |-> {"separate"},
     resizes     |-> {<<1, 2>>},
     delays      |-> {10, 20}]

\* The ends of the range of a uint.
Ends == {0, 1, UintMod - 2, UintMod - 1}

\* Overlays at offsets from both ends of the range of a uint.
Far ==
    [single      |-> TRUE,
     dims        |-> 0..SeqDim,
     fills       |-> {Transparent, Half},
     sources     |-> {<<1, 1, Red>>, <<2, 1, Red>>, <<2, 3, Faint>>},
     offsets     |-> {Offset(w, hgt) : w \in Ends, hgt \in Ends},
     blendForms  |-> {"separate"}]

\* Every buffer is also resized to its own size and cropped to its own bounds.
ResizeTargets(in, i) == in.resizes \cup {<<i.Width, i.Height>>}

CropRects(in, i) == in.crops \cup {Rect(0, 0, i.Width, i.Height)}

-----------------------------------------------------------------------------
(* The state machine: a buffer is constructed, then calls are made on it   *)
(* one after the other until one panics.                                   *)

Constructed(name, args, r) ==
    /\ heap = r.heap
    /\ img = r.img
    /\ ok = TRUE
    /\ ret = NoReturn
    /\ last = [name |-> name, args |-> args]
    /\ prev = Val(r.heap, r.img)
    /\ steps = 0
    /\ gf = NewGIF
    /\ grape = NewLineGrape

InitWith(in) ==
    \E w \in in.dims, hgt \in in.dims :
        \/ \E c \in in.fills :
               Constructed("NewImage", <<w, hgt, c>>, NewImage(<<>>, w, hgt, c))
        \/ Constructed("Render", <<w, hgt>>, Render(<<>>, w, hgt))

\* The call name(args) with outcome r.
Call(in, name, args, r) ==
    /\ ok
    /\ IF in.single THEN steps = 0 ELSE steps < MaxSteps
    /\ heap' = r.heap
    /\ img' = r.img
    /\ ok' = r.ok
    /\ ret' = r.ret
    /\ last' = [name |-> name, args |-> args]
    /\ prev' = Val(heap, img)
    /\ steps' = steps + 1
    /\ gf' = gf
    /\ grape' = grape

AtCall(in) ==
    \E c \in in.coords :
        Call(in, "At", c, Done(heap, img, At(heap, img, c[1], c[2])))

SetCall(in) ==
    \E c \in in.coords, col \in in.setColors :
        Call(in, "Set", <<c[1], c[2], col>>,
             Done(Set(heap, img, c[1], c[2], col), img, NoReturn))

ToCall(in) ==
    \E t \in in.toPairs :
        Call(in, "To", t, To(heap, img, t[1], t[2]))

\* i.Overlay(NewImage(w, h, c), o); the build decides the form of the blend.
OverlayCall(in) ==
    \E s \in in.sources, o \in in.offsets, form \in in.blendForms :
        LET src == NewImage(heap, s[1], s[2], s[3])
        IN  Call(in, "Overlay", <<s[1], s[2], s[3], o, form>>,
                 Overlay(src.heap, img, src.img, o, form))

\* i.Overlay(i, o): the buffer is overlaid on itself.
OverlaySelfCall(in) ==
    \E o \in in.offsets, form \in in.blendForms :
        Call(in, "OverlaySelf", <<o, form>>, Overlay(heap, img, img, o, form))

ResizeCall(in) ==
    \E d \in ResizeTargets(in, img) :
        Call(in, "Resize", d, Resize(heap, img, d[1], d[2]))

CropCall(in) ==
    \E r \in CropRects(in, img) :
        Call(in, "Crop", <<r>>, Crop(heap, img, r))

RoundCall(in) ==
    \E px \in in.radii :
        Call(in, "Round", <<px>>, Round(heap, img, px))

Rotate90Call(in) == Call(in, "Rotate90", <<>>, Rotate90(heap, img))

RotateMinus90Call(in) == Call(in, "RotateMinus90", <<>>, RotateMinus90(heap, img))

FlipHorizontalCall(in) == Call(in, "FlipHorizontal", <<>>, FlipHorizontal(heap, img))

FlipVerticalCall(in) == Call(in, "FlipVertical", <<>>, FlipVertical(heap, img))

\* i.Line(r, Red, t); the build decides the form of the arithmetic.
LineCall(in) ==
    \E l \in in.lines, form \in in.lineForms :
        Call(in, "Line", <<l[1], Red, l[2]>>, Line(heap, img, l[1], Red, l[2], form))

AsciiCall(in) ==
    \E d \in in.asciiSizes, n \in in.repeats :
        Call(in, "Ascii", <<d[1], d[2], n>>, Ascii(heap, img, d[1], d[2], n))

NextWith(in) ==
    \/ AtCall(in)
    \/ SetCall(in)
    \/ ToCall(in)
    \/ OverlayCall(in)
    \/ OverlaySelfCall(in)
    \/ ResizeCall(in)
    \/ CropCall(in)
    \/ RoundCall(in)
    \/ Rotate90Call(in)
    \/ RotateMinus90Call(in)
    \/ FlipHorizontalCall(in)
    \/ FlipVerticalCall(in)
    \/ LineCall(in)
    \/ AsciiCall(in)

\* One call, with the wide inputs, on every constructed buffer.
Init == InitWith(Wide)

Next == NextWith(Wide)

Spec == Init /\ [][Next]_vars

\* Sequences of calls, with the lean inputs.
InitSeq == InitWith(Lean)

NextSeq == NextWith(Lean)

SpecSeq == InitSeq /\ [][NextSeq]_vars

\* gf.Append(img, delay)
AppendCall(in) ==
    \E delay \in in.delays :
        /\ ok
        /\ steps < MaxSteps
        /\ gf' = GIFAppend(gf, heap, img, delay)
        /\ last' = [name |-> "Append", args |-> <<delay>>]
        /\ prev' = Val(heap, img)
        /\ steps' = steps + 1
        /\ ret' = NoReturn
        /\ UNCHANGED <<heap, img, ok, grape>>

\* Palette(img.Render(), limit)
PaletteCall(in) ==
    \E order \in IterationOrders(ColorSet(ImageRender(heap, img))) :
        \E limit \in in.limits :
            Call(in, "Palette", <<limit>>,
                 Done(heap, img, Palette(ImageRender(heap, img), limit, order)))

\* gf.ToGIFBuffer()
ToGIFBufferCall(in) ==
    \E orders \in FrameOrders(gf) :
        Call(in, "ToGIFBuffer", <<>>, Done(heap, img, ToGIFBuffer(gf, orders)))

\* A GIF assembled from the frames of a buffer and exported; the buffers are
\* those of up to FilmDim x FilmDim pixels and one row of BigFrame colours.
InitGIF ==
    \/ InitWith(Film)
    \/ Constructed("Render", <<BigFrame, 1>>, Render(<<>>, BigFrame, 1))

NextGIF ==
    \/ AppendCall(Film)
    \/ PaletteCall(Film)
    \/ ToGIFBufferCall(Film)

SpecGIF == InitGIF /\ [][NextGIF]_vars

\* gf.Append(img, delay), between calls that change img
AppendFrameCall(in) ==
    \E delay \in in.delays :
        /\ ok
        /\ Len(gf.Image) < MaxFrames
        /\ gf' = GIFAppend(gf, heap, img, delay)
        /\ last' = [name |-> "Append", args |-> <<delay>>]
        /\ prev' = Val(heap, img)
        /\ ret' = NoReturn
        /\ UNCHANGED <<heap, img, ok, steps, grape>>

\* Up to MaxFrames Appends of an image to a GIF, interleaved with up to
\* MaxSteps calls that change the image.
InitFilm == InitWith(Reel)

NextFilm ==
    \/ AppendFrameCall(Reel)
    \/ SetCall(Reel)
    \/ OverlayCall(Reel)
    \/ ResizeCall(Reel)
    \/ FlipHorizontalCall(Reel)

SpecFilm == InitFilm /\ [][NextFilm]_vars

\* One Overlay at an offset from either end of the range of a uint.
InitFar == InitWith(Far)

NextFar == OverlayCall(Far)

SpecFar == InitFar /\ [][NextFar]_vars

\* g.Append(v)
LineGrapeAppendCall ==
    \E v \in 0..MaxValue :
        /\ Len(grape.Value) < MaxPoints
        /\ grape' = LineGrapeAppend(grape, v)
        /\ last' = [name |-> "LineGrape.Append", args |-> <<v>>]
        /\ ret' = NoReturn
        /\ UNCHANGED <<heap, img, ok, prev, steps, gf>>

\* g.Render()
LineGrapeRenderCall ==
    \E nan \in NaNToUint :
        /\ ret' = LineGrapeRender(grape, nan)
        /\ last' = [name |-> "LineGrape.Render", args |-> <<>>]
        /\ UNCHANGED <<heap, img, ok, prev, steps, gf, grape>>

\* A chart filled with up to MaxPoints data points and rendered.
InitGrape ==
    Constructed("NewLineGrape", <<>>, NewImage(<<>>, 0, 0, Transparent))

NextGrape ==
    \/ LineGrapeAppendCall
    \/ LineGrapeRenderCall

SpecGrape == InitGrape /\ [][NextGrape]_vars

-----------------------------------------------------------------------------
(* Vocabulary of the properties: the buffer before and after the last call.*)

\* The pixel the buffer held at (x, y) before the last call, read as At reads.
PrevAt(x, y) ==
    IF x >= prev.Width \/ y >= prev.Height THEN RGBA(0, 0, 0, 0)
    ELSE prev.Pixel[x + 1][y + 1]

NowAt(x, y) == At(heap, img, x, y)

PrevCells == (0..(prev.Width - 1)) \X (0..(prev.Height - 1))

NowCells == (0..(img.Width - 1)) \X (0..(img.Height - 1))

Unchanged == Val(heap, img) = prev

PrevUniform(c) == \A p \in PrevCells : PrevAt(p[1], p[2]) = c

Min(a, b) == IF a < b THEN a ELSE b

-----------------------------------------------------------------------------
(* C1.  Rotate90 followed by RotateMinus90, or RotateMinus90 followed by   *)
(* Rotate90, completes on a buffer of any width and height and leaves it   *)
(* with its original Width, Height and pixels.                             *)

IsRotation(name) == name \in {"Rotate90", "RotateMinus90"}

C1_RotateRoundTrip ==
    [][/\ IsRotation(last'.name) => ok'
       /\ (IsRotation(last.name) /\ IsRotation(last'.name) /\ last'.name # last.name
              /\ steps' = steps + 1)
          => Val(heap', img') = prev]_vars

-----------------------------------------------------------------------------
(* C2.  On a buffer of any width W and height H, Rotate90 and              *)
(* RotateMinus90 each complete and leave a buffer of width H and height W  *)
(* that is a permutation of the source: every source pixel is found at     *)
(* exactly one destination coordinate and every destination coordinate     *)
(* holds exactly one source pixel; Rotate90 takes (x, y) to (y, H-1-x),    *)
(* RotateMinus90 takes it to the mirrored coordinate (H-1-y, x).           *)

C2_Destination(p) ==
    IF last.name = "Rotate90" THEN <<p[2], prev.Height - 1 - p[1]>>
    ELSE <<prev.Height - 1 - p[2], p[1]>>

C2_RotationIsPermutation ==
    IsRotation(last.name) =>
        /\ ok
        /\ img.Width = prev.Height
        /\ img.Height = prev.Width
        /\ \A p \in PrevCells :
               /\ C2_Destination(p) \in NowCells
               /\ NowAt(C2_Destination(p)[1], C2_Destination(p)[2]) = PrevAt(p[1], p[2])
        /\ \A p \in PrevCells, q \in PrevCells :
               C2_Destination(p) = C2_Destination(q) => p = q
        /\ \A d \in NowCells : \E p \in PrevCells : C2_Destination(p) = d

-----------------------------------------------------------------------------
(* C3.  On a uniform fully transparent buffer, Ascii(w, h, n) with w >= 1  *)
(* and h >= 1 completes and returns h lines, each of w*n copies of the     *)
(* first ramp character followed by a newline.                             *)

C3_DarkestText(w, hgt, n) ==
    [k \in 1..(hgt * (w * n + 1)) |->
        IF k % (w * n + 1) = 0 THEN Newline[1] ELSE ASCII_CHARS[1]]

C3_TransparentAscii ==
    (last.name = "Ascii" /\ PrevUniform(Transparent)
        /\ last.args[1] >= 1 /\ last.args[2] >= 1)
    => (ok /\ ret = C3_DarkestText(last.args[1], last.args[2], last.args[3]))

-----------------------------------------------------------------------------
(* C4.  Round treats the four corners as mirror images: on a uniform       *)
(* opaque square buffer, after Round(r) pixel (x, y) is transparent        *)
(* exactly when (W-1-x, y) is and exactly when (x, H-1-y) is; on the 4x4   *)
(* opaque red buffer with r = 1 the four corner pixels end transparent and *)
(* the other twelve stay opaque red.                                       *)

C4_Cut(x, y) == NowAt(x, y) = Transparent

C4_Corners == {<<0, 0>>, <<3, 0>>, <<0, 3>>, <<3, 3>>}

C4_RoundMirrors ==
    (last.name = "Round" /\ prev.Width = prev.Height /\ PrevUniform(Red)) =>
        /\ \A p \in NowCells :
               /\ C4_Cut(p[1], p[2]) <=> C4_Cut(img.Width - 1 - p[1], p[2])
               /\ C4_Cut(p[1], p[2]) <=> C4_Cut(p[1], img.Height - 1 - p[2])
        /\ (prev.Width = 4 /\ last.args[1] = 1) =>
               \A p \in NowCells :
                   NowAt(p[1], p[2]) = IF p \in C4_Corners THEN Transparent ELSE Red

-----------------------------------------------------------------------------
(* C5.  For a buffer of any width W and height H and a radius r with       *)
(* 2r <= min(W, H), Round(r) leaves unchanged every pixel (x, y) with      *)
(* r <= x <= W-r or r <= y <= H-r.                                         *)

C5_Straight(r, x, y) ==
    \/ r <= x /\ x <= prev.Width - r
    \/ r <= y /\ y <= prev.Height - r

C5_RoundKeepsStraight ==
    (last.name = "Round" /\ 2 * last.args[1] <= Min(prev.Width, prev.Height)) =>
        \A p \in PrevCells :
            C5_Straight(last.args[1], p[1], p[2]) => NowAt(p[1], p[2]) = PrevAt(p[1], p[2])

-----------------------------------------------------------------------------
(* C6.  After Overlay, every in-bounds destination pixel covered by a      *)
(* source pixel of alpha 255 equals that source pixel, whatever alpha the  *)
(* destination pixel had (0, 255 or in between).                           *)

\* The cells of the source of the last Overlay whose target is in bounds.
OverlaidCells ==
    {p \in (0..(last.args[1] - 1)) \X (0..(last.args[2] - 1)) :
        /\ last.args[4].W + p[1] < prev.Width
        /\ last.args[4].H + p[2] < prev.Height}

OverlayTarget(p) == <<last.args[4].W + p[1], last.args[4].H + p[2]>>

C6_OpaqueSourceReplaces ==
    (last.name = "Overlay" /\ last.args[3].A = 255) =>
        /\ ok
        /\ \A p \in OverlaidCells :
               NowAt(OverlayTarget(p)[1], OverlayTarget(p)[2]) = last.args[3]

\* An opaque source has been laid over a pixel whose alpha is neither 0 nor 255.
C6_Witness ==
    /\ last.name = "Overlay" /\ ok /\ last.args[3].A = 255
    /\ \E p \in OverlaidCells :
           LET t == OverlayTarget(p)
           IN  /\ PrevAt(t[1], t[2]).A \notin {0, 255}
               /\ PrevAt(t[1], t[2]) # last.args[3]
               /\ NowAt(t[1], t[2]) = last.args[3]

-----------------------------------------------------------------------------
(* C7.  After Overlay, an in-bounds destination pixel covered by a source  *)
(* pixel, outside the three special cases (source alpha 255 over alpha 255 *)
(* or 0, source alpha 0 over alpha 255), has the source's alpha and each   *)
(* of R, G, B equal to the truncation of (1-a)*dst + a*src with            *)
(* a = source alpha / 255; so a source of alpha 0 over a destination of    *)
(* alpha below 255 leaves the destination's R, G, B and sets alpha 0.      *)

\* trunc((1 - a/255)*d + (a/255)*s) = floor(((255-a)*d + a*s) / 255)
C7_Truncated(a, d, s) == ((255 - a) * d + a * s) \div 255

C7_Special(s, d) ==
    \/ s.A = 255 /\ d.A \in {0, 255}
    \/ s.A = 0 /\ d.A = 255

C7_BlendIsTruncation ==
    last.name = "Overlay" =>
        \A p \in OverlaidCells :
            LET t == OverlayTarget(p)
                s == last.args[3]
                d == PrevAt(t[1], t[2])
            IN  ~C7_Special(s, d) =>
                    /\ NowAt(t[1], t[2]) =
                           RGBA(C7_Truncated(s.A, d.R, s.R), C7_Truncated(s.A, d.G, s.G),
                                C7_Truncated(s.A, d.B, s.B), s.A)
                    /\ s.A = 0 => NowAt(t[1], t[2]) = RGBA(d.R, d.G, d.B, 0)

-----------------------------------------------------------------------------
(* C8.  At with x >= Width or y >= Height returns RGBA{0,0,0,0}; Set with  *)
(* x >= Width or y >= Height changes nothing and does not fail.            *)

C8_OutOfRange ==
    LET x == last.args[1]
        y == last.args[2]
    IN  /\ (last.name = "At" /\ (x >= prev.Width \/ y >= prev.Height))
               => (ok /\ ret = RGBA(0, 0, 0, 0) /\ Unchanged)
        /\ (last.name = "Set" /\ (x >= prev.Width \/ y >= prev.Height))
               => (ok /\ Unchanged)

\* A write one column past the right edge of a buffer that has pixels.
C8_Witness ==
    /\ last.name = "Set" /\ ok
    /\ last.args[1] = prev.Width /\ last.args[2] < prev.Height
    /\ prev.Width > 0
    /\ ~PrevUniform(last.args[3])
    /\ Unchanged

-----------------------------------------------------------------------------
(* C9.  After any sequence of completed operations the buffer's storage    *)
(* has exactly Width columns of exactly Height entries, so every (x, y)    *)
(* with x < Width and y < Height has a stored colour, which At returns;    *)
(* the buffer Crop returns is of the same form.                            *)

WellFormed(h, i) ==
    /\ Len(h[i.Pixel]) = i.Width
    /\ \A x \in 1..i.Width : Len(h[i.Pixel][x]) = i.Height
    /\ \A x \in 1..i.Width, y \in 1..i.Height :
           At(h, i, x - 1, y - 1) = h[i.Pixel][x][y]

C9_StorageMatchesDims ==
    /\ WellFormed(heap, img)
    /\ (last.name = "Crop" /\ ok) => WellFormed(heap, ret)

\* Two calls have completed, the second a rotation of an oblong buffer.
C9_Witness ==
    /\ steps >= 2 /\ ok
    /\ last.name = "RotateMinus90"
    /\ img.Width > img.Height /\ img.Height > 0
    /\ prev.Width = img.Height /\ prev.Height = img.Width

-----------------------------------------------------------------------------
(* C10.  Resize(w, h) with w >= 1 and h >= 1 leaves a buffer of width w    *)
(* and height h whose pixel (x, y) is the old pixel                        *)
(* (floor(x*W/w), floor(y*H/h)); that coordinate is inside the old buffer  *)
(* when W >= 1 and H >= 1; Resize(W, H) changes no pixel.                  *)

C10_Source(p, w, hgt) == <<(p[1] * prev.Width) \div w, (p[2] * prev.Height) \div hgt>>

C10_ResizeNearest ==
    (last.name = "Resize" /\ last.args[1] >= 1 /\ last.args[2] >= 1) =>
        LET w   == last.args[1]
            hgt == last.args[2]
        IN  /\ ok
            /\ img.Width = w
            /\ img.Height = hgt
            /\ \A p \in NowCells :
                   /\ NowAt(p[1], p[2]) =
                          PrevAt(C10_Source(p, w, hgt)[1], C10_Source(p, w, hgt)[2])
                   /\ (prev.Width >= 1 /\ prev.Height >= 1)
                          => C10_Source(p, w, hgt) \in PrevCells
            /\ (w = prev.Width /\ hgt = prev.Height) => Unchanged

\* A buffer of distinct pixels has been widened and shortened at once.
C10_Witness ==
    /\ last.name = "Resize" /\ ok
    /\ img.Width > prev.Width /\ prev.Width >= 2
    /\ img.Height < prev.Height /\ img.Height >= 2
    /\ \A p \in PrevCells, q \in PrevCells :
           PrevAt(p[1], p[2]) = PrevAt(q[1], q[2]) => p = q

-----------------------------------------------------------------------------
(* C11.  On a buffer of any size W x H, Crop with the rectangle            *)
(* (0,0)-(W,H) returns a buffer of Width W and Height H whose pixel at     *)
(* every (x, y) is the source pixel at (x, y).                             *)

C11_CropWhole ==
    (last.name = "Crop" /\ last.args[1] = Rect(0, 0, prev.Width, prev.Height)) =>
        /\ ok
        /\ ret.Width = prev.Width
        /\ ret.Height = prev.Height
        /\ WellFormed(heap, ret)
        /\ \A p \in PrevCells : At(heap, ret, p[1], p[2]) = PrevAt(p[1], p[2])

\* An oblong buffer of distinct pixels has been cropped to its own bounds.
C11_Witness ==
    /\ last.name = "Crop" /\ ok
    /\ last.args[1] = Rect(0, 0, prev.Width, prev.Height)
    /\ prev.Width >= 2 /\ prev.Height > prev.Width
    /\ ret.Width = prev.Width
    /\ \A p \in PrevCells, q \in PrevCells :
           At(heap, ret, p[1], p[2]) = At(heap, ret, q[1], q[2]) => p = q

-----------------------------------------------------------------------------
(* C12.  On a buffer of any size (odd or even, 0 and 1 included) a         *)
(* FlipHorizontal keeps Width and Height and moves pixel (x, y) to         *)
(* (W-1-x, y), a FlipVertical keeps them and moves it to (x, H-1-y), and   *)
(* either flip made twice in a row leaves every pixel and both dimensions  *)
(* as they were.                                                           *)

IsFlip(name) == name \in {"FlipHorizontal", "FlipVertical"}

\* Where the flip called name takes the pixel at p of the buffer i.
C12_Mirror(name, i, p) ==
    IF name = "FlipHorizontal" THEN <<i.Width - 1 - p[1], p[2]>>
    ELSE <<p[1], i.Height - 1 - p[2]>>

C12_FlipMirrors ==
    [][(IsFlip(last'.name) /\ steps' = steps + 1) =>
          /\ ok'
          /\ img'.Width = img.Width
          /\ img'.Height = img.Height
          /\ \A p \in NowCells :
                 LET m == C12_Mirror(last'.name, img, p)
                 IN  At(heap', img', m[1], m[2]) = At(heap, img, p[1], p[2])
          /\ last.name = last'.name => Val(heap', img') = prev]_vars

\* A 3x2 buffer of distinct pixels is back as it was after its second
\* FlipHorizontal; before that call it was the mirror image.
C12_Witness ==
    /\ steps = 2 /\ ok /\ last.name = "FlipHorizontal"
    /\ img.Width = 3 /\ img.Height = 2
    /\ \A p \in NowCells :
           /\ NowAt(p[1], p[2]) = Decoded(p[1], p[2])
           /\ PrevAt(p[1], p[2]) = Decoded(2 - p[1], p[2])

-----------------------------------------------------------------------------
(* C13.  After Resize, Crop, Rotate90, RotateMinus90, FlipHorizontal or    *)
(* FlipVertical the storage of the resulting buffer is disjoint from the   *)
(* storage the buffer held before the call: a copy of the Image value      *)
(* taken before the call keeps its old pixels through the call and through *)
(* any later Set on the result, and the buffer Crop returns is not changed *)
(* by a write to its source, nor its source by a write to it.              *)

\* The buffer the call just made leaves: what Crop returns, else the receiver.
C13_Result == IF last'.name = "Crop" THEN ret' ELSE img'

C13_Writes(i) == ((0..(i.Width - 1)) \X (0..(i.Height - 1))) \X {Red, Transparent}

\* The Image value as it was before the call (img, with the storage it
\* addresses) holds the same pixels after the call, and after a Set on the
\* result; a Set on the source of a Crop leaves the returned buffer alone.
C13_Disjoint ==
    /\ heap'[img.Pixel] = heap[img.Pixel]
    /\ \A w \in C13_Writes(C13_Result) :
           Set(heap', C13_Result, w[1][1], w[1][2], w[2])[img.Pixel] = heap[img.Pixel]
    /\ last'.name = "Crop" =>
           \A w \in C13_Writes(img') :
               Set(heap', img', w[1][1], w[1][2], w[2])[ret'.Pixel] = heap'[ret'.Pixel]

C13_Completed(names) == last'.name \in names /\ ok' /\ steps' = steps + 1

C13_StorageReplaced ==
    [][C13_Completed({"Resize", "Crop", "Rotate90", "RotateMinus90",
                      "FlipHorizontal", "FlipVertical"}) => C13_Disjoint]_vars

\* As amended: Resize, Crop, Rotate90 and RotateMinus90 leave the result in
\* storage of its own; FlipHorizontal and FlipVertical write into the
\* storage the buffer already has.
C13_StorageReplacedButFlips ==
    [][/\ C13_Completed({"Resize", "Crop", "Rotate90", "RotateMinus90"}) => C13_Disjoint
       /\ C13_Completed({"FlipHorizontal", "FlipVertical"}) => img'.Pixel = img.Pixel]_vars

\* A buffer of distinct pixels has been resized into storage of its own; the
\* storage it had still holds the old pixels.
C13_Witness ==
    /\ last.name = "Resize" /\ ok
    /\ img.Pixel # 1
    /\ heap[1] = prev.Pixel
    /\ prev.Width >= 2 /\ prev.Height >= 2
    /\ img.Width >= 2 /\ img.Height >= 2
    /\ prev.Pixel[1][1] # prev.Pixel[2][2]

-----------------------------------------------------------------------------
(* C14.  The degenerate calls complete: Resize with target width 0 or      *)
(* target height 0, and Crop with an inverted rectangle (W2 < W1 or        *)
(* H2 < H1, Dx or Dy wrapping), each return without a panic.               *)

C14_Inverted(r) == r.W2 < r.W1 \/ r.H2 < r.H1

C14_DegenerateCompletes ==
    /\ (last.name = "Resize" /\ (last.args[1] = 0 \/ last.args[2] = 0)) => ok
    /\ (last.name = "Crop" /\ C14_Inverted(last.args[1])) => ok

-----------------------------------------------------------------------------
(* C15.  For a frame with d distinct colours and a cap >= 0, Palette       *)
(* returns exactly min(d, cap) entries, pairwise distinct, each the colour *)
(* of at least one pixel of the frame: 3 distinct colours give 3 entries   *)
(* with cap 10 and exactly 2 with cap 2.                                   *)

\* The colours of the pixels of the buffer the last call was made on.
PrevColors == {PrevAt(p[1], p[2]) : p \in PrevCells}

C15_PaletteSize ==
    last.name = "Palette" =>
        /\ ok
        /\ Len(ret) = Min(Cardinality(PrevColors), last.args[1])
        /\ \A j \in 1..Len(ret), k \in 1..Len(ret) : ret[j] = ret[k] => j = k
        /\ \A k \in 1..Len(ret) : ret[k] \in PrevColors
        /\ (Cardinality(PrevColors) = 3 /\ last.args[1] = 10) => Len(ret) = 3
        /\ (Cardinality(PrevColors) = 3 /\ last.args[1] = 2) => Len(ret) = 2

\* A frame of three colours has been cut down to a palette of two.
C15_Witness ==
    /\ last.name = "Palette" /\ ok
    /\ Cardinality(PrevColors) = 3
    /\ last.args[1] = 2
    /\ Len(ret) = 2 /\ ret[1] # ret[2]

-----------------------------------------------------------------------------
(* C16.  The palette ToGIFBuffer builds for a frame never has more than    *)
(* 256 entries, however many distinct colours the frame has.               *)

C16_PaletteFitsGIF ==
    last.name = "ToGIFBuffer" => \A k \in 1..Len(ret) : Len(ret[k]) <= 256

-----------------------------------------------------------------------------
(* C17.  Line(r, c, t) sets to c exactly the pixels whose distance to the  *)
(* segment (r.W1, r.H1)-(r.W2, r.H2) is at most t/2, the distance being    *)
(* to the nearest endpoint when the projection falls outside the segment   *)
(* or the segment has no length, and leaves every other pixel unchanged;   *)
(* from (0, 0) to (0, 0) with thickness 4 only pixels with x*x + y*y <= 4  *)
(* change.                                                                 *)

\* The distance of (x, y) to the segment r is at most thickness/2, in exact
\* arithmetic: the squared distance to the line is cross^2 / lenSq.
C17_Within(r, x, y, thickness) ==
    LET vx    == r.W2 - r.W1
        vy    == r.H2 - r.H1
        lenSq == vx * vx + vy * vy
        wx    == x - r.W1
        wy    == y - r.H1
        dot   == wx * vx + wy * vy
        cross == wx * vy - wy * vx
    IN  IF lenSq = 0 \/ dot < 0
            THEN 4 * (wx * wx + wy * wy) <= thickness * thickness
        ELSE IF dot > lenSq
            THEN 4 * ((x - r.W2) * (x - r.W2) + (y - r.H2) * (y - r.H2))
                     <= thickness * thickness
        ELSE 4 * cross * cross <= thickness * thickness * lenSq

C17_LineExact ==
    last.name = "Line" =>
        /\ ok
        /\ img.Width = prev.Width /\ img.Height = prev.Height
        /\ \A p \in PrevCells :
               NowAt(p[1], p[2]) =
                   IF C17_Within(last.args[1], p[1], p[2], last.args[3])
                       THEN last.args[2]
                   ELSE PrevAt(p[1], p[2])
        /\ (last.args[1] = Rect(0, 0, 0, 0) /\ last.args[3] = 4) =>
               \A p \in PrevCells :
                   NowAt(p[1], p[2]) # PrevAt(p[1], p[2]) =>
                       p[1] * p[1] + p[2] * p[2] <= 4

-----------------------------------------------------------------------------
(* C18.  The destination Overlay leaves is the same for every order in     *)
(* which the source pixels are processed, for every destination, source    *)
(* and offset, also when the source is the destination buffer itself       *)
(* overlaid at a non-zero offset.                                          *)

\* The heap, destination, source, offset and form of the last Overlay, as
\* they were when it was called.
C18_Before ==
    LET dst == Image(prev.Width, prev.Height, 1)
        src == NewImage(<<prev.Pixel>>, last.args[1], last.args[2], last.args[3])
    IN  IF last.name = "OverlaySelf"
            THEN [heap |-> <<prev.Pixel>>, i |-> dst, i2 |-> dst,
                  o |-> last.args[1], form |-> last.args[2]]
        ELSE [heap |-> src.heap, i |-> dst, i2 |-> src.img,
              o |-> last.args[4], form |-> last.args[5]]

\* The source pixels in the order of the code, and in the opposite order.
C18_Orders ==
    LET cells == Cells(C18_Before.heap[C18_Before.i2.Pixel])
    IN  {cells, Reversed(cells)}

\* The destination pixels left when the source pixels are taken in order.
C18_Left(order) ==
    OverlayLoop(C18_Before.heap, C18_Before.i, C18_Before.i2, C18_Before.o,
                C18_Before.form, order, 1)[C18_Before.i.Pixel]

C18_OrderFree ==
    last.name \in {"Overlay", "OverlaySelf"} =>
        \A order \in C18_Orders : C18_Left(order) = heap[img.Pixel]

-----------------------------------------------------------------------------
(* C19.  Overlay of a source pixel with alpha 0 on a destination pixel     *)
(* with alpha 255 leaves the destination pixel equal in all four channels  *)
(* to its value before the call.                                           *)

C19_TransparentKeepsOpaque ==
    (last.name = "Overlay" /\ last.args[3].A = 0) =>
        /\ ok
        /\ \A p \in OverlaidCells :
               LET t == OverlayTarget(p)
               IN  PrevAt(t[1], t[2]).A = 255 =>
                       NowAt(t[1], t[2]) = PrevAt(t[1], t[2])

\* A transparent source has been overlaid on an opaque pixel away from the
\* origin, whose colour is not the source's.
C19_Witness ==
    /\ last.name = "Overlay" /\ ok /\ last.args[3].A = 0
    /\ \E p \in OverlaidCells :
           LET t == OverlayTarget(p)
           IN  /\ t # <<0, 0>>
               /\ PrevAt(t[1], t[2]).A = 255
               /\ PrevAt(t[1], t[2]).R # last.args[3].R
               /\ NowAt(t[1], t[2]) = PrevAt(t[1], t[2])

-----------------------------------------------------------------------------
(* C20.  Round(0) leaves every pixel and both dimensions of a buffer of    *)
(* any width and height unchanged.                                         *)

C20_RoundZeroKeeps ==
    (last.name = "Round" /\ last.args[1] = 0) => ok /\ Unchanged

\* Round(0) has run on a buffer taller than wide that has a pixel that is
\* not transparent below the square at its top.
C20_Witness ==
    /\ last.name = "Round" /\ last.args[1] = 0 /\ ok
    /\ prev.Width > 0
    /\ \E p \in PrevCells : p[2] > prev.Width /\ PrevAt(p[1], p[2]).A # 0
    /\ \E p \in NowCells : p[2] > img.Width /\ NowAt(p[1], p[2]).A # 0

-----------------------------------------------------------------------------
(* C21.  For a series of n >= 1 data points LineGrape.Render draws exactly *)
(* one vertical gridline per data point: for each index i in 0..n-1 a grey *)
(* vertical line from y = 30 to y = 470 at x = uint(640/n * i) + 30.       *)

\* The lines of the rendered chart that are grey and run from (x, 30) to
\* (x, 470), whatever their thickness.
C21_VerticalsAt(x) ==
    {k \in 1..Len(ret.Lines) :
        /\ ret.Lines[k].r = Rect(x, 30, x, 470)
        /\ ret.Lines[k].c = RGBA(120, 120, 120, 255)}

\* The gridlines of the rendered chart: the grey verticals of thickness 1.
C21_Gridlines ==
    {k \in 1..Len(ret.Lines) :
        /\ ret.Lines[k].r.W1 = ret.Lines[k].r.W2
        /\ ret.Lines[k].r.H1 = 30 /\ ret.Lines[k].r.H2 = 470
        /\ ret.Lines[k].c = RGBA(120, 120, 120, 255)
        /\ ret.Lines[k].thickness = 1}

C21_GridlinePerPoint ==
    (last.name = "LineGrape.Render" /\ Len(grape.Value) >= 1) =>
        /\ \A i \in 0..(Len(grape.Value) - 1) :
               C21_VerticalsAt(GrapeX(Len(grape.Value), i)) # {}
        /\ Cardinality(C21_Gridlines) = Len(grape.Value)

-----------------------------------------------------------------------------
(* C22.  After any sequence of GIF.Append calls interleaved with calls     *)
(* that change the appended Image, the Delay and Image lists have the      *)
(* length of the number of Appends, and entry k holds the k-th delay and   *)
(* the pixels the k-th image had at the moment of its Append: no later     *)
(* change of the image and no later Append changes an earlier frame.       *)

\* The frame is the buffer as it stands: its dimensions and its pixels.
C22_FrameOf(frame) ==
    /\ frame.Dx = img.Width /\ frame.Dy = img.Height
    /\ \A p \in NowCells : frame.Pix[p[1] + 1][p[2] + 1] = NowAt(p[1], p[2])

\* An Append adds the delay and the frame of the buffer at the end of the
\* lists and keeps the entries before; every other call keeps the lists.
C22_Step ==
    IF last'.name = "Append"
        THEN /\ Len(gf'.Image) = Len(gf.Image) + 1
             /\ Len(gf'.Delay) = Len(gf.Delay) + 1
             /\ \A k \in 1..Len(gf.Image) : gf'.Image[k] = gf.Image[k]
             /\ \A k \in 1..Len(gf.Delay) : gf'.Delay[k] = gf.Delay[k]
             /\ gf'.Delay[Len(gf'.Delay)] = last'.args[1]
             /\ C22_FrameOf(gf'.Image[Len(gf'.Image)])
             /\ UNCHANGED <<heap, img>>
    ELSE gf' = gf

C22_FramesKept == [][Len(gf.Image) = Len(gf.Delay) /\ C22_Step]_vars

\* Two frames with different delays have been appended, the image having
\* been changed between the two Appends and again after the second.
C22_Witness ==
    /\ Len(gf.Image) = 2 /\ Len(gf.Delay) = 2
    /\ gf.Delay[1] # gf.Delay[2]
    /\ gf.Image[1] # gf.Image[2]
    /\ ~C22_FrameOf(gf.Image[1])
    /\ ~C22_FrameOf(gf.Image[2])
    /\ last.name # "Append"

-----------------------------------------------------------------------------
(* C23.  Ascii(w, h, n) leaves its receiver unchanged: after the call the  *)
(* receiver's Width, Height and every pixel are what they were before,     *)
(* although Ascii resizes, rotates and flips a shallow copy of it.         *)
C23_AsciiKeepsReceiver ==
    last.name = "Ascii" => Unchanged

\* Ascii has returned the text of a 2x2 picture taken from a 3x2 receiver
\* whose pixels are not all alike.
C23_Witness ==
    /\ last.name = "Ascii" /\ ok
    /\ last.args = <<2, 2, 1>>
    /\ prev.Width = 3 /\ prev.Height = 2
    /\ PrevAt(0, 0) # PrevAt(2, 1)
    /\ Len(ret) = 6

-----------------------------------------------------------------------------
(* C24.  Overlay changes no destination pixel outside the footprint        *)
(* [o.W, o.W + src.Width) x [o.H, o.H + src.Height) and never changes the  *)
(* destination's Width or Height, for every offset in the whole range of   *)
(* a uint, the additions o.W + x and o.H + y wrapping modulo 2^w.          *)

\* Cell p lies in the footprint of the last Overlay.
C24_InFootprint(p) ==
    /\ last.args[4].W <= p[1] /\ p[1] < last.args[4].W + last.args[1]
    /\ last.args[4].H <= p[2] /\ p[2] < last.args[4].H + last.args[2]

C24_OverlayInFootprint ==
    last.name = "Overlay" =>
        /\ img.Width = prev.Width /\ img.Height = prev.Height
        /\ \A p \in PrevCells :
               ~C24_InFootprint(p) => NowAt(p[1], p[2]) = PrevAt(p[1], p[2])

====
